---- MODULE Spec2Model ----
(***************************************************************************)
(* State-machine model of the OpenSquare React front end                   *)
(* (src/frontend/App.js): the App component's state, its event handlers    *)
(* and the continuations of its asynchronous requests.                     *)
(*                                                                         *)
(* One action is one uninterrupted run of JavaScript: an event handler up  *)
(* to its first await, or the continuation of an async function after the  *)
(* awaited request settles (try/catch/finally included).  React re-renders *)
(* between two such runs, so a handler invoked by the user closes over the *)
(* state of the latest render, while a continuation still sees the values  *)
(* its handler closed over when it was invoked.                            *)
(*                                                                         *)
(* Texts are sequences of tokens (strings); " " is the whitespace token.   *)
(* An optional value is a set with at most one element.                    *)
(***************************************************************************)
EXTENDS Integers, Sequences, FiniteSets, TLC

VARIABLES
    currentPage,     \* useState('home')            App.js:16
    messages,        \* useState([])                App.js:17
    inputValue,      \* useState('')                App.js:18
    isLoading,       \* useState(false)             App.js:19
    documents,       \* useState([])                App.js:20
    uploadProgress,  \* useState(0)                 App.js:21
    apiStatus,       \* useState('checking')        App.js:22
    mounted,         \* the mount effect (App.js:31-34) has run
    healthReq,       \* number of GET /health requests in flight
    docsReq,         \* number of GET /documents requests in flight
    chatReq,         \* POST /chat requests in flight, with their closures
    uploadReq,       \* POST /upload requests in flight, with their closures
    initReq,         \* POST /init requests in flight, with their closures
    now,             \* the clock read by Date.now()
    ops,             \* history: the user operations invoked so far, in order
                     \* ("send", "upload", "seed"); an operation's number is
                     \* its index
    last,            \* history: the latest run of one of the component's async
                     \* functions (a handler or a continuation) and its outcome
    resp,            \* history: the response that run received, if it was a
                     \* continuation
    arrived          \* history: the numbers of the user operations whose
                     \* request has settled, in the order the responses arrived

vars == <<currentPage, messages, inputValue, isLoading, documents,
          uploadProgress, apiStatus, mounted, healthReq, docsReq, chatReq,
          uploadReq, initReq, now, ops, last, resp, arrived>>

reactState == <<currentPage, messages, inputValue, isLoading, documents,
                uploadProgress, apiStatus>>

----------------------------------------------------------------------------
(* Bounds and input sets *)

\* Number of user operations (send, upload, demo-seed load) in one run.
MaxOps == 2

\* Milliseconds the clock advances in one run.
MaxClock == 1

\* Texts the user types into the input box.
InputTexts == { <<>>, <<" ">>, <<" ", "q", " ">> }

\* Files the user selects; sizes in bytes.
Files == { [name |-> "a.csv", size |-> 3] }

\* e.target.files[0] when the selection is empty.
NoFile == [name |-> "", size |-> 0]

\* Document lists the backend can answer with (documents by id).
DocLists == { <<"d1">>, <<"d2", "d1">> }

Pages == {"home", "chat", "documents"}

----------------------------------------------------------------------------
(* Pure helpers *)

None == {}
Some(x) == {x}

IsSpace(c) == c = " "

RECURSIVE TrimStart(_)
TrimStart(s) ==
    IF s # <<>> /\ IsSpace(Head(s)) THEN TrimStart(Tail(s)) ELSE s

RECURSIVE TrimEnd(_)
TrimEnd(s) ==
    IF s # <<>> /\ IsSpace(s[Len(s)])
    THEN TrimEnd(SubSeq(s, 1, Len(s) - 1))
    ELSE s

\* String.prototype.trim
Trim(s) == TrimEnd(TrimStart(s))

\* Math.round(n / d) for n >= 0, d > 0
Round(n, d) == (2 * n + d) \div (2 * d)

RemoveAt(s, i) == SubSeq(s, 1, i - 1) \o SubSeq(s, i + 1, Len(s))

\* The value JavaScript renders for a missing field.
Undefined == <<"undefined">>

Step(op, outcome) == [op |-> op, outcome |-> outcome]

\* resp when the latest run was not a continuation
NoResponse == [settled |-> "none"]

\* resp when the continuation ran its catch block
Thrown == [settled |-> "thrown"]

----------------------------------------------------------------------------
(* What the backend can answer.  A request is either rejected (network     *)
(* error, timeout, non-2xx status: axios throws) or fulfilled; body tells  *)
(* whether response.data is an object (reading a field of a null body      *)
(* throws a TypeError inside the try block).                               *)

HealthResponses ==
    { [settled |-> "rejected",  body |-> FALSE, status |-> ""],
      [settled |-> "fulfilled", body |-> FALSE, status |-> ""],
      [settled |-> "fulfilled", body |-> TRUE,  status |-> "success"],
      [settled |-> "fulfilled", body |-> TRUE,  status |-> "error"] }

DocumentsResponses ==
    { [settled |-> "rejected",  body |-> FALSE, status |-> "", documents |-> <<>>],
      [settled |-> "fulfilled", body |-> FALSE, status |-> "", documents |-> <<>>],
      [settled |-> "fulfilled", body |-> TRUE,  status |-> "error", documents |-> <<>>] }
    \cup
    { [settled |-> "fulfilled", body |-> TRUE, status |-> "success", documents |-> d] :
        d \in DocLists }

Citation == [title |-> "Budget 2023", organization |-> "Ministry of Health"]

ChatResponses ==
    { [settled |-> "rejected",  body |-> FALSE, answer |-> Undefined, sources |-> None],
      [settled |-> "fulfilled", body |-> FALSE, answer |-> Undefined, sources |-> None],
      [settled |-> "fulfilled", body |-> TRUE,  answer |-> Undefined, sources |-> None],
      [settled |-> "fulfilled", body |-> TRUE,  answer |-> <<"X amount">>,
       sources |-> Some(<<>>)],
      [settled |-> "fulfilled", body |-> TRUE,  answer |-> <<"X amount">>,
       sources |-> Some(<<Citation>>)] }

UploadResponses ==
    { \* network error: no error.response
      [settled |-> "rejected", body |-> FALSE, status |-> "", filename |-> "",
       size |-> "", message |-> None, error |-> <<"Network Error">>],
      \* non-2xx with a server message
      [settled |-> "rejected", body |-> TRUE, status |-> "error", filename |-> "",
       size |-> "", message |-> Some(<<"Invalid file type">>),
       error |-> <<"Request failed with status code 400">>],
      \* 2xx with a null body
      [settled |-> "fulfilled", body |-> FALSE, status |-> "", filename |-> "",
       size |-> "", message |-> None,
       error |-> <<"Cannot read properties of null (reading 'status')">>],
      \* 2xx reporting a non-success status
      [settled |-> "fulfilled", body |-> TRUE, status |-> "error", filename |-> "",
       size |-> "", message |-> Some(<<"No file provided">>), error |-> <<>>],
      \* 2xx success
      [settled |-> "fulfilled", body |-> TRUE, status |-> "success",
       filename |-> "a.csv", size |-> "3 B", message |-> None, error |-> <<>>] }

InitResponses ==
    { [settled |-> "rejected"], [settled |-> "fulfilled"] }

\* The try block ran to its end without throwing.
Fulfilled(r) == r.settled = "fulfilled" /\ r.body

\* History: what the continuation read in its try block.
Received(r) == IF Fulfilled(r) THEN r ELSE Thrown

\* How a request ended, as the spec classifies it.
Outcome(r) ==
    IF ~Fulfilled(r) THEN "rejected"
    ELSE IF r.status = "success" THEN "success"
    ELSE "non-success"

ChatOutcome(r) ==
    IF ~Fulfilled(r) THEN "rejected"
    ELSE IF r.answer = Undefined THEN "malformed"
    ELSE "success"

----------------------------------------------------------------------------
(* Conversation entries.  op is a history field: the number of the user    *)
(* operation (send, upload, seed) that created the entry.                  *)

Message(id, type, content, sources, op) ==
    [id |-> id, type |-> type, content |-> content, sources |-> sources,
     timestamp |-> now, op |-> op]

ConnectError ==
    <<"Error: Could not connect to backend. Please check if the server is running.">>

SampleLoaded ==
    <<"Sample documents loaded! Try asking about \"COVID relief\", \"healthcare spending\", or \"education budget\"">>

----------------------------------------------------------------------------
(* Init: the state after the first render, before the mount effect. *)

Init ==
    /\ currentPage = "home"
    /\ messages = <<>>
    /\ inputValue = <<>>
    /\ isLoading = FALSE
    /\ documents = <<>>
    /\ uploadProgress = 0
    /\ apiStatus = "checking"
    /\ mounted = FALSE
    /\ healthReq = 0
    /\ docsReq = 0
    /\ chatReq = <<>>
    /\ uploadReq = <<>>
    /\ initReq = <<>>
    /\ now = 0
    /\ ops = <<>>
    /\ last = Step("init", "")
    /\ resp = NoResponse
    /\ arrived = <<>>

----------------------------------------------------------------------------
(* What the rendered page allows (renderChat). *)

\* Variant of SendDisabled: a submit button that ignores isLoading.
SendDisabled_IgnoresLoading == Trim(inputValue) = <<>> \/ apiStatus = "offline"

\* <button type="submit" disabled={...}>
SendDisabled == isLoading \/ Trim(inputValue) = <<>> \/ apiStatus = "offline"

\* <input type="text" disabled={...}>
InputDisabled == isLoading \/ apiStatus = "offline"

\* Variant of UploadDisabled: a file input that is never disabled.
UploadDisabled_Never == FALSE

\* <input type="file" disabled={...}>
UploadDisabled == isLoading

\* the "Load Sample Data" button of the empty state
SampleButtonShown == Len(messages) = 0

ChatShown == mounted /\ currentPage = "chat"

----------------------------------------------------------------------------
(* Requests issued by the component. *)

\* checkApiHealth up to its await: one GET /health
checkApiHealth == healthReq' = healthReq + 1

\* Variant of loadDocuments that never issues the request.
loadDocuments_Skipped == docsReq' = docsReq

\* loadDocuments up to its await: one GET /documents
loadDocuments == docsReq' = docsReq + 1

\* checkApiHealth after its await
checkApiHealthResume(r) ==
    /\ healthReq > 0
    /\ healthReq' = healthReq - 1
    /\ apiStatus' = IF Fulfilled(r)
                    THEN (IF r.status = "success" THEN "online" ELSE apiStatus)
                    ELSE "offline"
    /\ last' = Step("checkApiHealth", Outcome(r))
    /\ resp' = Received(r)
    /\ UNCHANGED arrived
    /\ UNCHANGED <<currentPage, messages, inputValue, isLoading, documents,
                   uploadProgress, mounted, docsReq, chatReq, uploadReq,
                   initReq, now, ops>>

\* Variant of loadDocumentsResume whose catch branch empties the cache.
loadDocumentsResume_ClearsOnFailure(r) ==
    /\ docsReq > 0
    /\ docsReq' = docsReq - 1
    /\ documents' = IF Fulfilled(r) /\ r.status = "success"
                    THEN r.documents
                    ELSE <<>>
    /\ last' = Step("loadDocuments", Outcome(r))
    /\ resp' = Received(r)
    /\ UNCHANGED arrived
    /\ UNCHANGED <<currentPage, messages, inputValue, isLoading,
                   uploadProgress, apiStatus, mounted, healthReq, chatReq,
                   uploadReq, initReq, now, ops>>

\* Variant of loadDocumentsResume that merges the answer into the cache.
loadDocumentsResume_Merges(r) ==
    /\ docsReq > 0
    /\ docsReq' = docsReq - 1
    /\ documents' = IF Fulfilled(r) /\ r.status = "success"
                    THEN documents \o r.documents
                    ELSE documents
    /\ last' = Step("loadDocuments", Outcome(r))
    /\ resp' = Received(r)
    /\ UNCHANGED arrived
    /\ UNCHANGED <<currentPage, messages, inputValue, isLoading,
                   uploadProgress, apiStatus, mounted, healthReq, chatReq,
                   uploadReq, initReq, now, ops>>

\* Variant of loadDocumentsResume that keeps a cache once it is filled.
loadDocumentsResume_FirstWins(r) ==
    /\ docsReq > 0
    /\ docsReq' = docsReq - 1
    /\ documents' = IF Fulfilled(r) /\ r.status = "success" /\ documents = <<>>
                    THEN r.documents
                    ELSE documents
    /\ last' = Step("loadDocuments", Outcome(r))
    /\ resp' = Received(r)
    /\ UNCHANGED arrived
    /\ UNCHANGED <<currentPage, messages, inputValue, isLoading,
                   uploadProgress, apiStatus, mounted, healthReq, chatReq,
                   uploadReq, initReq, now, ops>>

\* loadDocuments after its await
loadDocumentsResume(r) ==
    /\ docsReq > 0
    /\ docsReq' = docsReq - 1
    /\ documents' = IF Fulfilled(r) /\ r.status = "success"
                    THEN r.documents
                    ELSE documents
    /\ last' = Step("loadDocuments", Outcome(r))
    /\ resp' = Received(r)
    /\ UNCHANGED arrived
    /\ UNCHANGED <<currentPage, messages, inputValue, isLoading,
                   uploadProgress, apiStatus, mounted, healthReq, chatReq,
                   uploadReq, initReq, now, ops>>

\* useEffect(() => { checkApiHealth(); loadDocuments(); }, [])
Mount ==
    /\ ~mounted
    /\ mounted' = TRUE
    /\ checkApiHealth
    /\ loadDocuments
    /\ last' = Step("mount", "")
    /\ resp' = NoResponse
    /\ UNCHANGED arrived
    /\ UNCHANGED <<reactState, chatReq, uploadReq, initReq, now, ops>>

----------------------------------------------------------------------------
(* Chat *)

\* handleSendMessage up to its await
\* Variant of handleSendMessage without the test of the trimmed input.
handleSendMessage_NoGuard ==
    LET userMessage == Message(now, "user", inputValue, None, Len(ops) + 1) IN
    /\ messages' = Append(messages, userMessage)
    /\ inputValue' = <<>>
    /\ isLoading' = TRUE
    /\ chatReq' = Append(chatReq, [query |-> inputValue, op |-> Len(ops) + 1])
    /\ ops' = Append(ops, "send")
    /\ last' = Step("handleSendMessage", "dispatched")
    /\ resp' = NoResponse
    /\ UNCHANGED arrived
    /\ UNCHANGED <<currentPage, documents, uploadProgress, apiStatus,
                   mounted, healthReq, docsReq, uploadReq, initReq, now>>

handleSendMessage_KeepsInput ==
    IF Trim(inputValue) = <<>>
    THEN /\ last' = Step("handleSendMessage", "ignored")
         /\ resp' = NoResponse
         /\ UNCHANGED arrived
         /\ UNCHANGED <<reactState, mounted, healthReq, docsReq, chatReq,
                        uploadReq, initReq, now, ops>>
    ELSE LET userMessage == Message(now, "user", inputValue, None, Len(ops) + 1) IN
         /\ messages' = Append(messages, userMessage)
         /\ isLoading' = TRUE
         /\ chatReq' = Append(chatReq, [query |-> inputValue, op |-> Len(ops) + 1])
         /\ ops' = Append(ops, "send")
         /\ last' = Step("handleSendMessage", "dispatched")
         /\ resp' = NoResponse
         /\ UNCHANGED arrived
         /\ UNCHANGED <<currentPage, inputValue, documents, uploadProgress,
                        apiStatus, mounted, healthReq, docsReq, uploadReq,
                        initReq, now>>

handleSendMessage ==
    IF Trim(inputValue) = <<>>
    THEN /\ last' = Step("handleSendMessage", "ignored")
         /\ resp' = NoResponse
         /\ UNCHANGED arrived
         /\ UNCHANGED <<reactState, mounted, healthReq, docsReq, chatReq,
                        uploadReq, initReq, now, ops>>
    ELSE LET userMessage == Message(now, "user", inputValue, None, Len(ops) + 1) IN
         /\ messages' = Append(messages, userMessage)
         /\ inputValue' = <<>>
         /\ isLoading' = TRUE
         /\ chatReq' = Append(chatReq, [query |-> inputValue, op |-> Len(ops) + 1])
         /\ ops' = Append(ops, "send")
         /\ last' = Step("handleSendMessage", "dispatched")
         /\ resp' = NoResponse
         /\ UNCHANGED arrived
         /\ UNCHANGED <<currentPage, documents, uploadProgress, apiStatus,
                        mounted, healthReq, docsReq, uploadReq, initReq, now>>

\* Variant of handleSendMessageResume whose catch branch also marks the
\* backend offline.
handleSendMessageResume_SetsOffline(i, r) ==
    LET c == chatReq[i]
        aiMessage == Message(now + 1, "assistant", r.answer, r.sources, c.op)
        errorMessage == Message(now + 1, "error", ConnectError, None, c.op)
    IN
    /\ chatReq' = RemoveAt(chatReq, i)
    /\ messages' = Append(messages, IF Fulfilled(r) THEN aiMessage ELSE errorMessage)
    /\ isLoading' = FALSE
    /\ apiStatus' = IF Fulfilled(r) THEN apiStatus ELSE "offline"
    /\ last' = Step("handleSendMessage.resume", ChatOutcome(r))
    /\ resp' = Received(r)
    /\ arrived' = Append(arrived, c.op)
    /\ UNCHANGED <<currentPage, inputValue, documents, uploadProgress,
                   mounted, healthReq, docsReq, uploadReq, initReq, now, ops>>

\* Variant of handleSendMessageResume that clears the loading flag at the
\* end of the try block instead of in a finally block.
handleSendMessageResume_NoFinally(i, r) ==
    LET c == chatReq[i]
        aiMessage == Message(now + 1, "assistant", r.answer, r.sources, c.op)
        errorMessage == Message(now + 1, "error", ConnectError, None, c.op)
    IN
    /\ chatReq' = RemoveAt(chatReq, i)
    /\ messages' = Append(messages, IF Fulfilled(r) THEN aiMessage ELSE errorMessage)
    /\ isLoading' = IF Fulfilled(r) THEN FALSE ELSE isLoading
    /\ last' = Step("handleSendMessage.resume", ChatOutcome(r))
    /\ resp' = Received(r)
    /\ arrived' = Append(arrived, c.op)
    /\ UNCHANGED <<currentPage, inputValue, documents, uploadProgress,
                   apiStatus, mounted, healthReq, docsReq, uploadReq, initReq,
                   now, ops>>

\* Variant of handleSendMessageResume that leaves the citations out of the
\* assistant entry.
handleSendMessageResume_DropsSources(i, r) ==
    LET c == chatReq[i]
        aiMessage == Message(now + 1, "assistant", r.answer, None, c.op)
        errorMessage == Message(now + 1, "error", ConnectError, None, c.op)
    IN
    /\ chatReq' = RemoveAt(chatReq, i)
    /\ messages' = Append(messages, IF Fulfilled(r) THEN aiMessage ELSE errorMessage)
    /\ isLoading' = FALSE
    /\ last' = Step("handleSendMessage.resume", ChatOutcome(r))
    /\ resp' = Received(r)
    /\ arrived' = Append(arrived, c.op)
    /\ UNCHANGED <<currentPage, inputValue, documents, uploadProgress,
                   apiStatus, mounted, healthReq, docsReq, uploadReq, initReq,
                   now, ops>>

\* Variant of handleSendMessageResume that puts the terminal entry at the
\* front of the log.
handleSendMessageResume_Prepends(i, r) ==
    LET c == chatReq[i]
        aiMessage == Message(now + 1, "assistant", r.answer, r.sources, c.op)
        errorMessage == Message(now + 1, "error", ConnectError, None, c.op)
    IN
    /\ chatReq' = RemoveAt(chatReq, i)
    /\ messages' = <<IF Fulfilled(r) THEN aiMessage ELSE errorMessage>> \o messages
    /\ isLoading' = FALSE
    /\ last' = Step("handleSendMessage.resume", ChatOutcome(r))
    /\ resp' = Received(r)
    /\ arrived' = Append(arrived, c.op)
    /\ UNCHANGED <<currentPage, inputValue, documents, uploadProgress,
                   apiStatus, mounted, healthReq, docsReq, uploadReq, initReq,
                   now, ops>>

\* handleSendMessage after its await: try / catch / finally
handleSendMessageResume(i, r) ==
    LET c == chatReq[i]
        aiMessage == Message(now + 1, "assistant", r.answer, r.sources, c.op)
        errorMessage == Message(now + 1, "error", ConnectError, None, c.op)
    IN
    /\ chatReq' = RemoveAt(chatReq, i)
    /\ messages' = Append(messages, IF Fulfilled(r) THEN aiMessage ELSE errorMessage)
    /\ isLoading' = FALSE
    /\ last' = Step("handleSendMessage.resume", ChatOutcome(r))
    /\ resp' = Received(r)
    /\ arrived' = Append(arrived, c.op)
    /\ UNCHANGED <<currentPage, inputValue, documents, uploadProgress,
                   apiStatus, mounted, healthReq, docsReq, uploadReq, initReq,
                   now, ops>>

----------------------------------------------------------------------------
(* Upload *)

\* handleFileUpload up to its await
handleFileUpload(file) ==
    IF file = NoFile
    THEN /\ last' = Step("handleFileUpload", "ignored")
         /\ resp' = NoResponse
         /\ UNCHANGED arrived
         /\ UNCHANGED <<reactState, mounted, healthReq, docsReq, chatReq,
                        uploadReq, initReq, now, ops>>
    ELSE /\ isLoading' = TRUE
         /\ uploadProgress' = 0
         /\ uploadReq' = Append(uploadReq,
                [messages |-> messages, file |-> file, loaded |-> 0,
                 op |-> Len(ops) + 1])
         /\ ops' = Append(ops, "upload")
         /\ last' = Step("handleFileUpload", "dispatched")
         /\ resp' = NoResponse
         /\ UNCHANGED arrived
         /\ UNCHANGED <<currentPage, messages, inputValue, documents,
                        apiStatus, mounted, healthReq, docsReq, chatReq,
                        initReq, now>>

\* Variant of onUploadProgress that truncates the percentage.
onUploadProgress_Truncates(i, loaded) ==
    LET c == uploadReq[i]
        percentComplete == (loaded * 100) \div c.file.size
    IN
    /\ c.loaded < loaded
    /\ loaded <= c.file.size
    /\ uploadProgress' = percentComplete
    /\ uploadReq' = [uploadReq EXCEPT ![i].loaded = loaded]
    /\ UNCHANGED <<last, resp, arrived, currentPage, messages, inputValue, isLoading, documents,
                   apiStatus, mounted, healthReq, docsReq, chatReq, initReq,
                   now, ops>>

\* onUploadProgress: the transport reports loaded bytes, increasing
onUploadProgress(i, loaded) ==
    LET c == uploadReq[i]
        percentComplete == Round(loaded * 100, c.file.size)
    IN
    /\ c.loaded < loaded
    /\ loaded <= c.file.size
    /\ uploadProgress' = percentComplete
    /\ uploadReq' = [uploadReq EXCEPT ![i].loaded = loaded]
    /\ UNCHANGED <<last, resp, arrived, currentPage, messages, inputValue, isLoading, documents,
                   apiStatus, mounted, healthReq, docsReq, chatReq, initReq,
                   now, ops>>

\* Variant of handleFileUploadResume whose failure path leaves the progress
\* value as it was.
handleFileUploadResume_KeepsProgress(i, r) ==
    LET c == uploadReq[i]
        successMessage ==
            Message(now, "success",
                    <<"(ok) ", r.filename, " uploaded successfully (", r.size, ")">>,
                    None, c.op)
        detail == IF r.settled = "rejected" /\ r.message # None
                  THEN CHOOSE m \in r.message : TRUE
                  ELSE r.error
        errorMessage ==
            Message(now, "error", <<"Error uploading file: ">> \o detail, None, c.op)
    IN
    /\ uploadReq' = RemoveAt(uploadReq, i)
    /\ IF Fulfilled(r)
       THEN IF r.status = "success"
            THEN /\ messages' = Append(c.messages, successMessage)
                 /\ loadDocuments
            ELSE UNCHANGED <<messages, docsReq>>
       ELSE /\ messages' = Append(c.messages, errorMessage)
            /\ UNCHANGED docsReq
    /\ isLoading' = FALSE
    /\ uploadProgress' = IF Fulfilled(r) THEN 0 ELSE uploadProgress
    /\ last' = Step("handleFileUpload.resume", Outcome(r))
    /\ resp' = Received(r)
    /\ arrived' = Append(arrived, c.op)
    /\ UNCHANGED <<currentPage, inputValue, documents, apiStatus, mounted,
                   healthReq, chatReq, initReq, now, ops>>

\* handleFileUpload after its await: try / catch / finally.
\* messages is the array the handler closed over when it was invoked.
handleFileUploadResume(i, r) ==
    LET c == uploadReq[i]
        successMessage ==
            Message(now, "success",
                    <<"(ok) ", r.filename, " uploaded successfully (", r.size, ")">>,
                    None, c.op)
        detail == IF r.settled = "rejected" /\ r.message # None
                  THEN CHOOSE m \in r.message : TRUE
                  ELSE r.error
        errorMessage ==
            Message(now, "error", <<"Error uploading file: ">> \o detail, None, c.op)
    IN
    /\ uploadReq' = RemoveAt(uploadReq, i)
    /\ IF Fulfilled(r)
       THEN IF r.status = "success"
            THEN /\ messages' = Append(c.messages, successMessage)
                 /\ loadDocuments
            ELSE UNCHANGED <<messages, docsReq>>
       ELSE /\ messages' = Append(c.messages, errorMessage)
            /\ UNCHANGED docsReq
    /\ isLoading' = FALSE
    /\ uploadProgress' = 0
    /\ last' = Step("handleFileUpload.resume", Outcome(r))
    /\ resp' = Received(r)
    /\ arrived' = Append(arrived, c.op)
    /\ UNCHANGED <<currentPage, inputValue, documents, apiStatus, mounted,
                   healthReq, chatReq, initReq, now, ops>>

----------------------------------------------------------------------------
(* Demo seed *)

\* loadSampleData up to its await
loadSampleData ==
    /\ initReq' = Append(initReq, [messages |-> messages, op |-> Len(ops) + 1])
    /\ ops' = Append(ops, "seed")
    /\ last' = Step("loadSampleData", "dispatched")
    /\ resp' = NoResponse
    /\ UNCHANGED arrived
    /\ UNCHANGED <<reactState, mounted, healthReq, docsReq, chatReq,
                   uploadReq, now>>

\* loadSampleData after its await: try / catch.
\* messages is the array the handler closed over when it was invoked.
loadSampleDataResume(i, r) ==
    LET c == initReq[i]
        msg == Message(now, "success", SampleLoaded, None, c.op)
    IN
    /\ initReq' = RemoveAt(initReq, i)
    /\ IF r.settled = "fulfilled"
       THEN /\ loadDocuments
            /\ messages' = Append(c.messages, msg)
       ELSE UNCHANGED <<messages, docsReq>>
    /\ last' = Step("loadSampleData.resume",
                    IF r.settled = "fulfilled" THEN "success" ELSE "rejected")
    /\ resp' = IF r.settled = "fulfilled" THEN r ELSE Thrown
    /\ arrived' = Append(arrived, c.op)
    /\ UNCHANGED <<currentPage, inputValue, isLoading, documents,
                   uploadProgress, apiStatus, mounted, healthReq, chatReq,
                   uploadReq, now, ops>>

----------------------------------------------------------------------------
(* What the user can do on the rendered page. *)

\* a nav button or "Start Exploring" / "Go to Chat": setCurrentPage(p)
Navigate(p) ==
    /\ mounted
    /\ currentPage' = p
    /\ UNCHANGED <<last, resp, arrived, messages, inputValue, isLoading, documents, uploadProgress,
                   apiStatus, mounted, healthReq, docsReq, chatReq, uploadReq,
                   initReq, now, ops>>

\* onChange of the text input: setInputValue(e.target.value)
ChangeInput(v) ==
    /\ ChatShown
    /\ ~InputDisabled
    /\ inputValue' = v
    /\ UNCHANGED <<last, resp, arrived, currentPage, messages, isLoading, documents, uploadProgress,
                   apiStatus, mounted, healthReq, docsReq, chatReq, uploadReq,
                   initReq, now, ops>>

\* onSubmit of the form, through the submit button
SubmitForm ==
    /\ ChatShown
    /\ ~SendDisabled
    /\ Len(ops) < MaxOps
    /\ handleSendMessage

\* onChange of the file input
ChangeFile(file) ==
    /\ ChatShown
    /\ ~UploadDisabled
    /\ Len(ops) < MaxOps
    /\ handleFileUpload(file)

\* onClick of "Load Sample Data"
ClickLoadSampleData ==
    /\ ChatShown
    /\ SampleButtonShown
    /\ Len(ops) < MaxOps
    /\ loadSampleData

----------------------------------------------------------------------------
(* The backend settles a request. *)

HealthSettles == \E r \in HealthResponses : checkApiHealthResume(r)

DocumentsSettles == \E r \in DocumentsResponses : loadDocumentsResume(r)

ChatSettles ==
    \E i \in 1..Len(chatReq) : \E r \in ChatResponses : handleSendMessageResume(i, r)

UploadProgresses ==
    \E i \in 1..Len(uploadReq) : \E n \in 1..uploadReq[i].file.size :
        onUploadProgress(i, n)

UploadSettles ==
    \E i \in 1..Len(uploadReq) : \E r \in UploadResponses :
        handleFileUploadResume(i, r)

InitSettles ==
    \E i \in 1..Len(initReq) : \E r \in InitResponses : loadSampleDataResume(i, r)

Next ==
    \/ Mount
    \/ \E p \in Pages : Navigate(p)
    \/ \E v \in InputTexts : ChangeInput(v)
    \/ SubmitForm
    \/ \E f \in Files \cup {NoFile} : ChangeFile(f)
    \/ ClickLoadSampleData
    \/ HealthSettles
    \/ DocumentsSettles
    \/ ChatSettles
    \/ UploadProgresses
    \/ UploadSettles
    \/ InitSettles

Spec == Init /\ [][Next]_vars

\* Every chat request is eventually settled by the transport.
FairSpec == Spec /\ WF_vars(ChatSettles)

\* A millisecond passes: Date.now() and new Date() read one more.
Tick ==
    /\ now < MaxClock
    /\ now' = now + 1
    /\ UNCHANGED <<reactState, mounted, healthReq, docsReq, chatReq,
                   uploadReq, initReq, ops, last, resp, arrived>>

NextClock == Next \/ Tick

\* The component with a running clock.
SpecClock == Init /\ [][NextClock]_vars

\* A submit event that reaches the form's onSubmit although the submit
\* button is disabled (form.requestSubmit(), a test driving the handler),
\* with nothing but white space in the input.
SubmitBlank ==
    /\ mounted
    /\ Trim(inputValue) = <<>>
    /\ Len(ops) < MaxOps
    /\ handleSendMessage

NextDirect == Next \/ SubmitBlank

SpecDirect == Init /\ [][NextDirect]_vars

----------------------------------------------------------------------------
(* Vocabulary of the properties. *)

IsPrefix(s, t) == Len(s) <= Len(t) /\ SubSeq(t, 1, Len(s)) = s

\* positions of the entries of the given types that operation k created
EntriesOf(k, types) ==
    { i \in DOMAIN messages : messages[i].op = k /\ messages[i].type \in types }

SendInFlight(k) == \E j \in DOMAIN chatReq : chatReq[j].op = k

\* the step dispatches / settles a request of the given kind
ChatDispatched == Len(chatReq') > Len(chatReq)
ChatSettled == Len(chatReq') < Len(chatReq)
UploadDispatched == Len(uploadReq') > Len(uploadReq)
UploadSettled == Len(uploadReq') < Len(uploadReq)
InitDispatched == Len(initReq') > Len(initReq)
InitSettled == Len(initReq') < Len(initReq)
HealthSettled == healthReq' < healthReq
DocumentsSettled == docsReq' < docsReq

\* the step appends exactly one entry, of the given type, to the log
AppendsOne(type) ==
    /\ Len(messages') = Len(messages) + 1
    /\ IsPrefix(messages, messages')
    /\ messages'[Len(messages')].type = type

----------------------------------------------------------------------------
(* C1: every send with non-blank input appends exactly one user entry when *)
(* it is invoked and, once its request has settled, the log holds exactly  *)
(* one terminal entry (assistant or error) of that send, whatever upload   *)
(* completions, seed completions and refreshes interleave.                 *)

C1_OneUserOneTerminal ==
    /\ [][ChatDispatched => AppendsOne("user")]_vars
    /\ [](\A k \in DOMAIN ops :
            ops[k] = "send" =>
                Cardinality(EntriesOf(k, {"assistant", "error"}))
                    = IF SendInFlight(k) THEN 0 ELSE 1)

(* C2: the conversation log is append-only: in every step the log before   *)
(* is a prefix of the log after.                                           *)

C2_AppendOnly == [][IsPrefix(messages, messages')]_vars

(* C3: while apiStatus is offline neither send nor upload is enabled: no   *)
(* step taken in an offline state dispatches a chat or an upload request.  *)

C3_OfflineGating ==
    [][apiStatus = "offline" => ~ChatDispatched /\ ~UploadDispatched]_vars

(* C4: when the probe's request settles, apiStatus becomes online if the   *)
(* response carries the status marker "success" and offline on any         *)
(* failure (rejection, or a response with a non-success marker); so it is  *)
(* no longer checking.                                                     *)

C4_ProbeDecides ==
    [][HealthSettled =>
        /\ apiStatus' = IF last'.outcome = "success" THEN "online" ELSE "offline"
        /\ apiStatus' # "checking"]_vars

(* C5: apiStatus starts as checking and only the settling of the probe     *)
(* changes it: no step of send, upload, refresh or seed does, whether it   *)
(* succeeds or fails; and the probe does not touch the conversation log.   *)

C5_StatusOnlyByProbe ==
    /\ apiStatus = "checking"
    /\ [][/\ apiStatus' # apiStatus => HealthSettled
          /\ HealthSettled => messages' = messages]_vars

\* a send has failed after the probe found the backend online, and the
\* status is still online
C5_Witness ==
    /\ last = Step("handleSendMessage.resume", "rejected")
    /\ apiStatus = "online"
    /\ healthReq = 0

(* C6: the loading flag is set by the step that dispatches a chat request  *)
(* and cleared by the step that settles it, on success and on failure; if  *)
(* every chat request is eventually settled, a state with a chat request   *)
(* in flight is eventually followed by one where the flag is false.        *)

C6_LoadingCleared ==
    /\ [][/\ ChatDispatched => isLoading'
          /\ ChatSettled => ~isLoading']_vars
    /\ (Len(chatReq) > 0) ~> ~isLoading

\* a chat request was rejected and the flag is down
C6_Witness ==
    /\ last = Step("handleSendMessage.resume", "rejected")
    /\ chatReq = <<>>
    /\ ~isLoading

(* C7: the step that settles an upload creates exactly one entry: a        *)
(* success entry when the transfer succeeded, an error entry when it       *)
(* failed, a response reporting a non-success status included.             *)

C7_UploadAppendsOne ==
    [][UploadSettled =>
        LET k == CHOOSE k \in { uploadReq[j].op : j \in DOMAIN uploadReq } :
                    \A j \in DOMAIN uploadReq' : uploadReq'[j].op # k
            new == { i \in DOMAIN messages' : messages'[i].op = k }
        IN /\ Cardinality(new) = 1
           /\ \A i \in new :
                messages'[i].type =
                    IF last'.outcome = "success" THEN "success" ELSE "error"]_vars

(* C8: a step in which a send, an upload, the probe or a seed load fails   *)
(* (its request is rejected or answers with a non-success status) leaves a *)
(* new error entry at the end of the log or changes apiStatus; only a      *)
(* failed refresh changes neither.                                         *)

C8_FailuresSurfaced ==
    [][/\ ChatSettled \/ UploadSettled \/ HealthSettled \/ InitSettled
       /\ last'.outcome \in {"rejected", "non-success"}
       => \/ /\ messages' # messages
             /\ messages' # <<>>
             /\ messages'[Len(messages')].type = "error"
          \/ apiStatus' # apiStatus]_vars

(* C9: the mount effect issues one refresh; the step that settles an       *)
(* upload or a seed load issues exactly one refresh when the operation     *)
(* succeeded and none when it failed; no other step issues a refresh.      *)

C9_RefreshIssued ==
    [][/\ (~mounted /\ mounted') => docsReq' = docsReq + 1
       /\ UploadSettled =>
            docsReq' = docsReq + (IF last'.outcome = "success" THEN 1 ELSE 0)
       /\ InitSettled =>
            docsReq' = docsReq + (IF last'.outcome = "success" THEN 1 ELSE 0)
       /\ docsReq' > docsReq => (~mounted /\ mounted') \/ UploadSettled \/ InitSettled
      ]_vars

\* an upload has just succeeded and its refresh is in flight
C9_Witness ==
    /\ last = Step("handleFileUpload.resume", "success")
    /\ docsReq >= 1

(* C10: a refresh that fails leaves the cached document list as it was     *)
(* (an empty cache stays empty) and appends nothing to the log.            *)

C10_FailedRefreshSilent ==
    [][DocumentsSettled /\ last'.outcome # "success" =>
        documents' = documents /\ messages' = messages]_vars

\* a refresh has just been rejected and the cache still holds documents
C10_Witness ==
    /\ last = Step("loadDocuments", "rejected")
    /\ documents # <<>>

(* C11: a refresh that succeeds leaves the cache equal to the list the     *)
(* server answered with, in the server's order, whatever the cache held    *)
(* before; hence two refreshes answered with the same list leave the same  *)
(* cache.                                                                  *)

C11_RefreshReplaces ==
    last = Step("loadDocuments", "success") => documents = resp.documents

\* the startup refresh and a later one have both settled, the latest with
\* the one-document list
C11_Witness ==
    /\ last = Step("loadDocuments", "success")
    /\ docsReq = 0
    /\ arrived # <<>>
    /\ documents = <<"d1">>

(* C12: when a chat request succeeds, the settling step appends one        *)
(* assistant entry whose content is the answer received and whose sources  *)
(* are the citations received, in their order (possibly none); when it is  *)
(* rejected, the step appends one error entry with the fixed text, for     *)
(* every cause of the rejection, and no assistant entry.                   *)

C12_TerminalEntryContent ==
    [][ChatSettled =>
        LET e == messages'[Len(messages')] IN
        /\ last'.outcome = "success" =>
            /\ AppendsOne("assistant")
            /\ e.content = resp'.answer
            /\ e.sources = resp'.sources
        /\ last'.outcome = "rejected" =>
            /\ AppendsOne("error")
            /\ e.content = ConnectError
            /\ e.sources = None]_vars

\* a chat request has just succeeded with one citation
C12_Witness ==
    /\ last = Step("handleSendMessage.resume", "success")
    /\ messages # <<>>
    /\ messages[Len(messages)].type = "assistant"
    /\ messages[Len(messages)].sources = Some(<<Citation>>)

(* C13: a chat response that is fulfilled but lacks the answer field is    *)
(* handled as a failure: the settling step appends an error entry and no   *)
(* assistant entry.                                                        *)

C13_MalformedIsFailure ==
    [][ChatSettled /\ last'.outcome = "malformed" => AppendsOne("error")]_vars

(* C14: the step that dispatches a send appends a user entry carrying the  *)
(* input as typed, and the chat request it dispatches carries the trimmed  *)
(* input.                                                                  *)

C14_RawShownTrimmedSent ==
    [][ChatDispatched =>
        /\ AppendsOne("user")
        /\ messages'[Len(messages')].content = inputValue
        /\ chatReq'[Len(chatReq')].query = Trim(inputValue)]_vars

(* C15: in every reachable state the entries of the log have pairwise      *)
(* distinct ids, also when entries are created in the same millisecond or  *)
(* one millisecond apart.                                                  *)

C15_DistinctIds ==
    \A i, j \in DOMAIN messages : i # j => messages[i].id # messages[j].id

(* C16: the step that dispatches a send appends that send's user entry;    *)
(* whenever the user entry and the terminal entry of one send are both in  *)
(* the log, the user entry comes first; and the entries created by         *)
(* responses (every entry that is not a user entry) stand in the log in    *)
(* the order in which their responses arrived.                             *)

\* position of operation k in the order of arrival
ArrivalOf(k) == CHOOSE n \in DOMAIN arrived : arrived[n] = k

C16_EntryOrder ==
    /\ [][ChatDispatched =>
            /\ AppendsOne("user")
            /\ messages'[Len(messages')].op = chatReq'[Len(chatReq')].op]_vars
    /\ [](\A i, j \in DOMAIN messages :
            /\ messages[i].op = messages[j].op
            /\ messages[i].type = "user"
            /\ messages[j].type # "user"
            => i < j)
    /\ [](\A i, j \in DOMAIN messages :
            /\ i < j
            /\ messages[i].type # "user"
            /\ messages[j].type # "user"
            => /\ \E n \in DOMAIN arrived : arrived[n] = messages[i].op
               /\ \E n \in DOMAIN arrived : arrived[n] = messages[j].op
               /\ ArrivalOf(messages[i].op) < ArrivalOf(messages[j].op))

\* a send and then an upload have both succeeded: user entry, assistant
\* entry, upload notice
C16_Witness ==
    /\ ops = <<"send", "upload">>
    /\ arrived = <<1, 2>>
    /\ Len(messages) = 3
    /\ messages[1].type = "user" /\ messages[1].op = 1
    /\ messages[2].type = "assistant" /\ messages[2].op = 1
    /\ messages[3].type = "success" /\ messages[3].op = 2

(* C17: the step in which an upload terminates, with any outcome, resets   *)
(* uploadProgress to 0, removes that upload's request and issues no other; *)
(* no request of a terminated upload is ever in flight again; an upload    *)
(* request appears only in a step of handleFileUpload that counts as a new *)
(* invocation.                                                             *)
C17_ResetNoRetry ==
    /\ [][UploadSettled =>
            /\ uploadProgress' = 0
            /\ Len(uploadReq') = Len(uploadReq) - 1
            /\ ops' = ops]_vars
    /\ [][UploadDispatched =>
            /\ last' = Step("handleFileUpload", "dispatched")
            /\ ops' = Append(ops, "upload")
            /\ uploadReq'[Len(uploadReq')].op = Len(ops')]_vars
    /\ [](\A i \in DOMAIN uploadReq :
            \A n \in DOMAIN arrived : arrived[n] # uploadReq[i].op)

\* an upload has failed after the transport reported progress, and the user
\* has picked the file again
C17_Witness ==
    /\ ops = <<"upload", "upload">>
    /\ arrived = <<1>>
    /\ Len(messages) = 1 /\ messages[1].type = "error"
    /\ Len(uploadReq) = 1 /\ uploadReq[1].op = 2
    /\ uploadProgress = 0

(* C18 as stated: during one upload the values of uploadProgress never     *)
(* decrease, each is the percentage of bytes sent rounded to the nearest   *)
(* integer and lies in 0..100, and when the upload succeeds the value just *)
(* before the reset is 100.                                                *)

\* p is x = 100 * loaded / total rounded as Math.round does: x - 1/2 < p <= x + 1/2
IsRounded(p, loaded, total) ==
    /\ 2 * p * total <= 200 * loaded + total
    /\ 2 * p * total > 200 * loaded - total

ProgressNonDecreasing ==
    [][Len(uploadReq) = 1 /\ Len(uploadReq') = 1 => uploadProgress' >= uploadProgress]_vars

ProgressRounded ==
    /\ \A total \in 1..8 : \A loaded \in 0..total :
            IsRounded(Round(loaded * 100, total), loaded, total)
    /\ [](\A i \in DOMAIN uploadReq :
            IsRounded(uploadProgress, uploadReq[i].loaded, uploadReq[i].file.size))
    /\ [](uploadProgress \in 0..100)

C19_OneUpload ==
    /\ [](Len(uploadReq) <= 1)
    /\ [](uploadReq # <<>> => UploadDisabled)
    /\ [][UploadDispatched => uploadReq = <<>>]_vars

\* an upload is unresolved while the chat page is shown and another
\* operation could still be started
C19_Witness ==
    /\ Len(uploadReq) = 1
    /\ ChatShown
    /\ UploadDisabled
    /\ Len(ops) < MaxOps

(* C20: the step that dispatches a send appends the user entry and empties *)
(* inputValue, and leaves the send button disabled; a send is dispatched   *)
(* only with non-blank text; the send button is disabled while inputValue  *)
(* is blank; and apart from a dispatch, inputValue changes only in a step  *)
(* where the enabled text input is edited and no handler runs.             *)
C20_InputCleared ==
    /\ [][ChatDispatched =>
            /\ Trim(inputValue) # <<>>
            /\ AppendsOne("user")
            /\ inputValue' = <<>>
            /\ SendDisabled']_vars
    /\ [](Trim(inputValue) = <<>> => SendDisabled)
    /\ [][inputValue' # inputValue /\ ~ChatDispatched =>
            /\ ~InputDisabled
            /\ UNCHANGED <<messages, isLoading, chatReq, uploadReq, initReq,
                           ops, last>>]_vars

\* the first send has been answered and its text is gone from the input:
\* the button stays disabled although nothing is loading
C20_Witness ==
    /\ last = Step("handleSendMessage.resume", "success")
    /\ ops = <<"send">>
    /\ inputValue = <<>>
    /\ ~isLoading
    /\ apiStatus = "online"
    /\ SendDisabled

(* C21: with any number of refreshes outstanding, a successful response,   *)
(* whichever refresh it answers, makes the cache equal to its list; no     *)
(* other step changes the cache; so at every moment, and in particular     *)
(* when no refresh is outstanding, the cache is the list of the latest     *)
(* successful response to arrive (or empty before the first), and it is    *)
(* always one whole response, never a combination of two.                  *)
C21_LastArrivalWins ==
    /\ [][DocumentsSettled /\ last'.outcome = "success" =>
            documents' = resp'.documents]_vars
    /\ [][documents' # documents =>
            DocumentsSettled /\ last'.outcome = "success"]_vars
    /\ [](documents = <<>> \/ documents \in DocLists)

\* the startup refresh and the refreshes after a sample-data load and an
\* upload were outstanding together; the latest of two answers so far left
\* the two-document list, and one refresh is still outstanding
C21_Witness ==
    /\ Len(arrived) = 2
    /\ docsReq = 1
    /\ last = Step("loadDocuments", "success")
    /\ documents = <<"d2", "d1">>
    /\ resp.documents = documents

(* C22: in every reachable state isLoading is true exactly when one send   *)
(* or one upload request is unresolved; a send and an upload (or two of    *)
(* either) are never unresolved together; a send or an upload is           *)
(* dispatched only while isLoading is false; and the step that settles one *)
(* leaves none unresolved and the flag false.                              *)
C22_LoadingExact ==
    /\ [](Len(chatReq) + Len(uploadReq) <= 1)
    /\ [](isLoading <=> Len(chatReq) + Len(uploadReq) = 1)
    /\ [][ChatDispatched \/ UploadDispatched => ~isLoading /\ isLoading']_vars
    /\ [][ChatSettled \/ UploadSettled =>
            /\ isLoading /\ ~isLoading'
            /\ chatReq' = <<>> /\ uploadReq' = <<>>]_vars

\* an upload is unresolved while text is waiting in the input of a backend
\* known to be online: only the loading flag holds the send back
C22_Witness ==
    /\ isLoading
    /\ Len(uploadReq) = 1 /\ chatReq = <<>>
    /\ Trim(inputValue) # <<>>
    /\ ChatShown
    /\ apiStatus = "online"
    /\ Len(ops) < MaxOps

(* C23: a run of handleSendMessage with empty or white-space-only input,   *)
(* and a run of handleFileUpload with no file, is ignored: it appends no   *)
(* entry, issues no request of any kind, and leaves inputValue, isLoading, *)
(* uploadProgress, documents and apiStatus as they were; and only such     *)
(* runs are ignored: a send is dispatched only with non-blank input and an *)
(* upload only with a file.                                                *)

\* the step is a run of a handler that returned early
Ignored == last' # last /\ last'.outcome = "ignored"

C23_InvalidInputNoEffect ==
    /\ [][Ignored =>
            /\ last'.op \in {"handleSendMessage", "handleFileUpload"}
            /\ UNCHANGED <<messages, inputValue, isLoading, uploadProgress,
                           documents, apiStatus, currentPage>>
            /\ UNCHANGED <<healthReq, docsReq, chatReq, uploadReq, initReq, ops>>]_vars
    /\ [][last' # last /\ last'.op = "handleSendMessage" /\ Trim(inputValue) = <<>> =>
            last'.outcome = "ignored"]_vars
    /\ [][ChatDispatched => Trim(inputValue) # <<>>]_vars
    /\ [][UploadDispatched => uploadReq'[Len(uploadReq')].file # NoFile]_vars

\* a submit with one space in the input arrived during an upload that had
\* reported two of three bytes: everything is as it was
C23_Witness ==
    /\ last = Step("handleSendMessage", "ignored")
    /\ inputValue = <<" ">>
    /\ isLoading
    /\ Len(uploadReq) = 1 /\ chatReq = <<>>
    /\ uploadProgress = 67
    /\ messages = <<>>

====
